---- MODULE Spec2Model ----
(***************************************************************************)
(* Model of drivers/gpu/drm/ttm/ttm_execbuf_util.c: the batch reservation  *)
(* helpers ttm_eu_reserve_buffers, ttm_eu_backoff_reservation and          *)
(* ttm_eu_fence_buffer_objects, run by several concurrent callers over a   *)
(* shared set of buffer objects and one LRU list.                          *)
(*                                                                         *)
(* Each caller ("batch") owns a validate list, an optional duplicates      *)
(* list and an optional ww_acquire_ctx ticket.  The reservation object of  *)
(* a buffer (its ww_mutex, its fences, its pre-allocated shared slots) and *)
(* the LRU list live outside the file; they are modelled from the          *)
(* interface the file uses.                                                *)
(***************************************************************************)
EXTENDS Integers, Sequences, FiniteSets, TLC

\* ---- bounds of the model ----
NumBatches == 2
NumRes == 2
MaxLen == 2
MaxShared == 1
\* the lists of the long-list specification: the last caller's and the others'
MaxLong == 3
MaxShort == 1

Batches == 1..NumBatches
Resources == 1..NumRes

VARIABLES
    list,       \* list[b]: the validate list of batch b
    dups,       \* dups[b]: the duplicates list of batch b
    has_dups,   \* has_dups[b]: the dups argument is not NULL
    ticketed,   \* ticketed[b]: the ticket argument is not NULL
    intr,       \* intr[b]: the intr argument
    pc,         \* pc[b]: position of batch b in its calls
    cur,        \* cur[b]: index in list[b] of the loop's entry
    k,          \* k[b]: index of the entry of a release sweep
    ret,        \* ret[b]: the value of ret / the value reserve returned
    tstate,     \* tstate[b]: the ticket: "unset", "init" or "fini"
    stamp,      \* stamp[b]: the ticket's sequence number
    ww_stamp,   \* the global sequence counter of the ww class
    owner,      \* owner[r]: the batch holding r's reservation lock, 0 if none
    slots,      \* slots[r]: shared slots pre-allocated during the current hold
    excl,       \* excl[r]: the exclusive fence of r, 0 if none
    shared,     \* shared[r]: the shared fences of r
    lru,        \* the LRU list, head first
    lru_lock,   \* the batch holding ttm_bo_glob.lru_lock, 0 if none
    orig,       \* history: the list as passed to reserve
    excl_before,\* history: excl when fence_buffer_objects was called
    after_dup,  \* history: id of the node that followed the removed duplicate
    sig         \* history: a signal ended the batch's slow-path wait

vars == <<list, dups, has_dups, ticketed, intr, pc, cur, k, ret, tstate, stamp,
          ww_stamp, owner, slots, excl, shared, lru, lru_lock, orig,
          excl_before, after_dup, sig>>

cfgvars == <<has_dups, ticketed, intr, orig>>

\* the arguments (ticket != NULL, intr, dups != NULL) of a call of reserve;
\* without a ticket the lock is a trylock, which reads neither intr nor dups
ReserveArgs ==
    { a \in BOOLEAN \X BOOLEAN \X BOOLEAN : a[1] \/ (~a[2] /\ ~a[3]) }

\* ---- list helpers (include/linux/list.h as used by the file) ----
ListDelHead(l, i) == Tail(l)

ListDel(l, i) == [j \in 1..(Len(l) - 1) |-> IF j < i THEN l[j] ELSE l[j + 1]]

ListAddTail(e, l) == Append(l, e)

ListAdd(e, l) == <<e>> \o l

ListEmpty(l) == Len(l) = 0

RemoveRes(s, r) == SelectSeq(s, LAMBDA x : x # r)

\* ---- the reservation object ----
Acquired(b) == Cardinality({r \in Resources : owner[r] = b})

\* the ww_acquire_ctx recorded in r's ww_mutex: 0 for unlocked or trylocked
Ctx(r) == IF owner[r] # 0 /\ ticketed[owner[r]] THEN owner[r] ELSE 0

\* wait-die: a younger context that already holds locks backs off
MustDie(b, r) ==
    /\ Ctx(r) # 0
    /\ Ctx(r) # b
    /\ stamp[b] > stamp[Ctx(r)]
    /\ Acquired(b) > 0

\* dma_resv_lock / dma_resv_lock_interruptible: the results the call can
\* return in the current state; the empty set when the caller sleeps
WwMutexLock(b, r, interruptible) ==
    IF owner[r] = 0 THEN {"0"}
    ELSE IF Ctx(r) = b THEN {"EALREADY"}
    ELSE (IF MustDie(b, r) THEN {"EDEADLK"} ELSE {})
         \cup (IF interruptible THEN {"EINTR"} ELSE {})

\* __ttm_bo_reserve(bo, interruptible, no_wait, ticket)
TtmBoReserve(b, r, interruptible, no_wait) ==
    IF no_wait
    THEN {IF owner[r] = 0 THEN "0" ELSE "EBUSY"}
    ELSE { IF x = "EINTR" THEN "ERESTARTSYS" ELSE x :
             x \in WwMutexLock(b, r, interruptible) }

\* dma_resv_reserve_shared: succeeds or runs out of memory
ReserveSharedResults == {"0", "ENOMEM"}

\* dma_resv_unlock
Unlock(r) ==
    /\ owner' = [owner EXCEPT ![r] = 0]
    /\ slots' = [slots EXCEPT ![r] = 0]

\* ttm_bo_move_to_lru_tail(bo, NULL)
MoveToLruTail(s, r) == Append(RemoveRes(s, r), r)

\* ww_acquire_init
WwAcquireInit(b) ==
    /\ ww_stamp' = ww_stamp + 1
    /\ stamp' = [stamp EXCEPT ![b] = ww_stamp + 1]
    /\ tstate' = [tstate EXCEPT ![b] = "init"]

\* ww_acquire_fini, under "if (ticket)"
WwAcquireFini(b) ==
    /\ tstate' = [tstate EXCEPT ![b] = IF ticketed[b] THEN "fini" ELSE @]
    /\ UNCHANGED <<stamp, ww_stamp>>

Init ==
    /\ list = [b \in Batches |-> <<>>]
    /\ orig = [b \in Batches |-> <<>>]
    /\ dups = [b \in Batches |-> <<>>]
    /\ has_dups = [b \in Batches |-> FALSE]
    /\ ticketed = [b \in Batches |-> FALSE]
    /\ intr = [b \in Batches |-> FALSE]
    /\ pc = [b \in Batches |-> "idle"]
    /\ cur = [b \in Batches |-> 0]
    /\ k = [b \in Batches |-> 0]
    /\ ret = [b \in Batches |-> "0"]
    /\ tstate = [b \in Batches |-> "unset"]
    /\ stamp = [b \in Batches |-> 0]
    /\ ww_stamp = 0
    /\ owner = [r \in Resources |-> 0]
    /\ slots = [r \in Resources |-> 0]
    /\ excl = [r \in Resources |-> 0]
    /\ shared = [r \in Resources |-> {}]
    /\ lru = [i \in 1..NumRes |-> i]
    /\ lru_lock = 0
    /\ excl_before = [b \in Batches |-> [r \in Resources |-> 0]]
    /\ after_dup = [b \in Batches |-> 0]
    /\ sig = [b \in Batches |-> FALSE]

\* ---- the caller builds its validate list (list_add_tail of one entry) ----
AddEntryUpTo(b, max) ==
    /\ pc[b] = "idle"
    /\ Len(list[b]) < max
    /\ \E r \in Resources, n \in 0..MaxShared :
          list' = [list EXCEPT ![b] =
                     Append(@, [bo |-> r, num_shared |-> n, id |-> Len(@) + 1])]
    /\ UNCHANGED <<dups, has_dups, ticketed, intr, pc, cur, k, ret, tstate, stamp,
                   ww_stamp, owner, slots, excl, shared, lru, lru_lock, orig,
                   excl_before, after_dup, sig>>

AddEntry(b) == AddEntryUpTo(b, MaxLen)

AddEntryLong(b) == AddEntryUpTo(b, IF b = NumBatches THEN MaxLong ELSE MaxShort)

\* ---- ttm_eu_reserve_buffers ----

\* the call, and lines 87-91: the empty list returns 0; otherwise the ticket
\* is set up.  The batches are numbered in the order of their calls.
ReserveBegin(b) ==
    /\ pc[b] = "idle"
    /\ \A c \in Batches : c < b => pc[c] # "idle"
    /\ \E a \in ReserveArgs :
          /\ ticketed' = [ticketed EXCEPT ![b] = a[1]]
          /\ intr' = [intr EXCEPT ![b] = a[2]]
          /\ has_dups' = [has_dups EXCEPT ![b] = a[3]]
    /\ orig' = [orig EXCEPT ![b] = list[b]]
    /\ IF ListEmpty(list[b])
       THEN /\ pc' = [pc EXCEPT ![b] = "reserved"]
            /\ ret' = [ret EXCEPT ![b] = "0"]
            /\ UNCHANGED <<cur, tstate, stamp, ww_stamp>>
       ELSE /\ pc' = [pc EXCEPT ![b] = "lock"]
            /\ cur' = [cur EXCEPT ![b] = 1]
            /\ UNCHANGED ret
            /\ IF ticketed'[b] THEN WwAcquireInit(b)
               ELSE UNCHANGED <<tstate, stamp, ww_stamp>>
    /\ UNCHANGED <<list, dups, k, owner, slots, excl, shared, lru, lru_lock,
                   excl_before, after_dup, sig>>

\* "continue" of list_for_each_entry from position i of list l: the next
\* entry is attempted, or the loop ends and reserve returns 0 (line 152)
Continue(b, l, i) ==
    /\ list' = [list EXCEPT ![b] = l]
    /\ cur' = [cur EXCEPT ![b] = i + 1]
    /\ IF i + 1 > Len(l)
       THEN /\ pc' = [pc EXCEPT ![b] = "reserved"]
            /\ ret' = [ret EXCEPT ![b] = "0"]
       ELSE /\ pc' = [pc EXCEPT ![b] = "lock"]
            /\ UNCHANGED ret

NoWaitNever(b) == FALSE

\* line 96: the no_wait argument, "(ticket == NULL)"
NoWait(b) == ~ticketed[b]

LockOkLoose(rc) == rc \in {"0", "EBUSY"}

LockOkAlready(rc) == rc \in {"0", "EALREADY"}

\* line 105: "if (!ret)"
LockOk(rc) == rc = "0"

NeedSharedNever(e) == FALSE

\* lines 106 and 131: "entry->num_shared" as a condition
NeedShared(e) == e.num_shared # 0

ListPrevEntrySame(i) == i

\* line 99: list_prev_entry, as an index
ListPrevEntry(i) == i - 1

AfterBackoffFail(rc) == "fail"

AfterBackoffSlow(rc) == "slow"

\* where the code goes once ttm_eu_backoff_reservation_reverse is over
AfterBackoff(rc) == IF rc = "EDEADLK" THEN "slow" ELSE "fail"

LostOutNoRollback(b, rc) ==
    /\ ret' = [ret EXCEPT ![b] = rc]
    /\ pc' = [pc EXCEPT ![b] = AfterBackoff(rc)]
    /\ UNCHANGED <<list, cur, k>>

\* lines 115-119: the entry failed with rc; the entries before it are released
LostOut(b, rc) ==
    /\ ret' = [ret EXCEPT ![b] = rc]
    /\ IF cur[b] = 1
       THEN /\ pc' = [pc EXCEPT ![b] = AfterBackoff(rc)]
            /\ UNCHANGED k
       ELSE /\ pc' = [pc EXCEPT ![b] = "backoff_rev"]
            /\ k' = [k EXCEPT ![b] = cur[b] - 1]
    /\ UNCHANGED <<list, cur>>

\* lines 96, 105-113: the lock is obtained at once, then the shared slots
LockAcquire(b) ==
    /\ pc[b] = "lock"
    /\ LET e == list[b][cur[b]] IN
       /\ \E rc \in TtmBoReserve(b, e.bo, intr[b], NoWait(b)) : LockOk(rc)
       /\ owner' = [owner EXCEPT ![e.bo] = IF @ = 0 THEN b ELSE @]
       /\ after_dup' = [after_dup EXCEPT ![b] = 0]
       /\ IF ~NeedShared(e)
          THEN /\ Continue(b, list[b], cur[b])
               /\ UNCHANGED <<slots, k>>
          ELSE \E rs \in ReserveSharedResults :
                 IF rs = "0"
                 THEN /\ slots' = [slots EXCEPT ![e.bo] = e.num_shared]
                      /\ Continue(b, list[b], cur[b])
                      /\ UNCHANGED k
                 ELSE /\ LostOut(b, rs)
                      /\ UNCHANGED slots
    /\ UNCHANGED <<dups, tstate, stamp, ww_stamp, excl, shared, lru, lru_lock,
                   excl_before, sig>>
    /\ UNCHANGED cfgvars

\* lines 97-103: -EALREADY with a duplicates list
LockDuplicate(b) ==
    /\ pc[b] = "lock"
    /\ has_dups[b]
    /\ LET e == list[b][cur[b]] IN
       /\ "EALREADY" \in TtmBoReserve(b, e.bo, intr[b], NoWait(b))
       /\ dups' = [dups EXCEPT ![b] = ListAdd(e, @)]
       /\ after_dup' = [after_dup EXCEPT ![b] =
                          IF cur[b] < Len(list[b]) THEN list[b][cur[b] + 1].id ELSE 0]
       /\ Continue(b, ListDel(list[b], cur[b]), ListPrevEntry(cur[b]))
    /\ UNCHANGED <<k, tstate, stamp, ww_stamp, owner, slots, excl, shared, lru,
                   lru_lock, excl_before, sig>>
    /\ UNCHANGED cfgvars

\* line 96 with any other result: fall through to the rollback
LockFailed(b) ==
    /\ pc[b] = "lock"
    /\ LET e == list[b][cur[b]] IN
       \E rc \in TtmBoReserve(b, e.bo, intr[b], NoWait(b)) :
          /\ rc # "ERESTARTSYS"
          /\ ~LockOk(rc)
          /\ ~(rc = "EALREADY" /\ has_dups[b])
          /\ LostOut(b, rc)
    /\ after_dup' = [after_dup EXCEPT ![b] = 0]
    /\ UNCHANGED <<dups, tstate, stamp, ww_stamp, owner, slots, excl, shared, lru,
                   lru_lock, excl_before, sig>>
    /\ UNCHANGED cfgvars

\* line 96: a signal ends the sleep in dma_resv_lock_interruptible
LockInterrupted(b) ==
    /\ pc[b] = "lock"
    /\ LET e == list[b][cur[b]] IN
       /\ "ERESTARTSYS" \in TtmBoReserve(b, e.bo, intr[b], NoWait(b))
       /\ LostOut(b, "ERESTARTSYS")
    /\ after_dup' = [after_dup EXCEPT ![b] = 0]
    /\ UNCHANGED <<dups, tstate, stamp, ww_stamp, owner, slots, excl, shared, lru,
                   lru_lock, excl_before, sig>>
    /\ UNCHANGED cfgvars

\* lines 36-44: one iteration of ttm_eu_backoff_reservation_reverse
BackoffReverse(b) ==
    /\ pc[b] = "backoff_rev"
    /\ Unlock(list[b][k[b]].bo)
    /\ k' = [k EXCEPT ![b] = @ - 1]
    /\ pc' = [pc EXCEPT ![b] = IF k[b] = 1 THEN AfterBackoff(ret[b]) ELSE @]
    /\ UNCHANGED <<list, dups, cur, ret, tstate, stamp, ww_stamp, excl, shared,
                   lru, lru_lock, excl_before, after_dup, sig>>
    /\ UNCHANGED cfgvars

\* lines 121-133, 145-149: the slow-path lock is obtained; the shared slots
\* are reserved again and the entry moves to the front of the list
SlowLock(b) ==
    /\ pc[b] = "slow"
    /\ LET e == list[b][cur[b]] IN
       /\ owner[e.bo] = 0
       /\ owner' = [owner EXCEPT ![e.bo] = b]
       /\ \E rs \in (IF NeedShared(e) THEN ReserveSharedResults ELSE {"0"}) :
            IF rs = "0"
            THEN /\ slots' = [slots EXCEPT ![e.bo] =
                                   IF NeedShared(e) THEN e.num_shared ELSE @]
                 /\ Continue(b, ListAdd(e, ListDel(list[b], cur[b])), 1)
            ELSE /\ ret' = [ret EXCEPT ![b] = rs]
                 /\ pc' = [pc EXCEPT ![b] = "fail"]
                 /\ UNCHANGED <<list, cur, slots>>
    /\ UNCHANGED <<dups, k, tstate, stamp, ww_stamp, excl, shared, lru, lru_lock,
                   excl_before, after_dup, sig>>
    /\ UNCHANGED cfgvars

\* lines 122-124: a signal ends dma_resv_lock_slow_interruptible with -EINTR
SlowLockInterrupted(b) ==
    /\ pc[b] = "slow"
    /\ intr[b]
    /\ owner[list[b][cur[b]].bo] # 0
    /\ ret' = [ret EXCEPT ![b] = "EINTR"]
    /\ sig' = [sig EXCEPT ![b] = TRUE]
    /\ pc' = [pc EXCEPT ![b] = "fail"]
    /\ UNCHANGED <<list, dups, cur, k, tstate, stamp, ww_stamp, owner, slots, excl,
                   shared, lru, lru_lock, excl_before, after_dup>>
    /\ UNCHANGED cfgvars

ErrorCodeRaw(rc) == rc

\* the value line 142 returns for ret
ErrorCode(rc) == IF rc = "EINTR" THEN "ERESTARTSYS" ELSE rc

\* lines 135-143: the error return
ReserveFail(b) ==
    /\ pc[b] = "fail"
    /\ ret' = [ret EXCEPT ![b] = ErrorCode(@)]
    /\ WwAcquireFini(b)
    /\ pc' = [pc EXCEPT ![b] = "failed"]
    /\ UNCHANGED <<list, dups, cur, k, owner, slots, excl, shared, lru, lru_lock,
                   excl_before, after_dup, sig>>
    /\ UNCHANGED cfgvars

\* ---- ttm_eu_backoff_reservation ----

SpinLockNoWait(b) == lru_lock' = b

\* spin_lock(&ttm_bo_glob.lru_lock)
SpinLock(b) ==
    /\ lru_lock = 0
    /\ lru_lock' = b

\* lines 51-54
BackoffBegin(b) ==
    /\ pc[b] = "reserved"
    /\ IF ListEmpty(list[b])
       THEN /\ pc' = [pc EXCEPT ![b] = "done"]
            /\ UNCHANGED <<k, lru_lock>>
       ELSE /\ SpinLock(b)
            /\ pc' = [pc EXCEPT ![b] = "bo_sweep"]
            /\ k' = [k EXCEPT ![b] = 1]
    /\ UNCHANGED <<list, dups, cur, ret, tstate, stamp, ww_stamp, owner, slots,
                   excl, shared, lru, excl_before, after_dup, sig>>
    /\ UNCHANGED cfgvars

\* lines 55-60: one iteration of the loop
BackoffSweep(b) ==
    /\ pc[b] = "bo_sweep"
    /\ LET r == list[b][k[b]].bo IN
       /\ lru' = MoveToLruTail(lru, r)
       /\ Unlock(r)
    /\ k' = [k EXCEPT ![b] = @ + 1]
    /\ pc' = [pc EXCEPT ![b] = IF k[b] = Len(list[b]) THEN "bo_unlock" ELSE @]
    /\ UNCHANGED <<list, dups, cur, ret, tstate, stamp, ww_stamp, excl, shared,
                   lru_lock, excl_before, after_dup, sig>>
    /\ UNCHANGED cfgvars

\* lines 61-64
BackoffEnd(b) ==
    /\ pc[b] = "bo_unlock"
    /\ lru_lock' = 0
    /\ WwAcquireFini(b)
    /\ pc' = [pc EXCEPT ![b] = "done"]
    /\ UNCHANGED <<list, dups, cur, k, ret, owner, slots, excl, shared, lru,
                   excl_before, after_dup, sig>>
    /\ UNCHANGED cfgvars

\* ---- ttm_eu_fence_buffer_objects; the fence of batch b is b ----

\* dma_resv_add_shared_fence
AddSharedFence(r, f) ==
    /\ shared' = [shared EXCEPT ![r] = @ \cup {f}]
    /\ UNCHANGED excl

\* dma_resv_add_excl_fence: the shared fences are dropped
AddExclFence(r, f) ==
    /\ excl' = [excl EXCEPT ![r] = f]
    /\ shared' = [shared EXCEPT ![r] = {}]

SharedFenceSwapped(e) == e.num_shared = 0

\* line 169: "if (entry->num_shared)"
SharedFence(e) == e.num_shared # 0

\* lines 162-165
FenceBegin(b) ==
    /\ pc[b] = "reserved"
    /\ IF ListEmpty(list[b])
       THEN /\ pc' = [pc EXCEPT ![b] = "done"]
            /\ UNCHANGED <<k, lru_lock>>
       ELSE /\ SpinLock(b)
            /\ pc' = [pc EXCEPT ![b] = "fence_sweep"]
            /\ k' = [k EXCEPT ![b] = 1]
    /\ excl_before' = [excl_before EXCEPT ![b] = excl]
    /\ UNCHANGED <<list, dups, cur, ret, tstate, stamp, ww_stamp, owner, slots,
                   excl, shared, lru, after_dup, sig>>
    /\ UNCHANGED cfgvars

FenceMarkNone(b) ==
    /\ pc[b] = "fence_sweep"
    /\ pc' = [pc EXCEPT ![b] = "fence_rel"]
    /\ UNCHANGED <<list, dups, cur, k, ret, tstate, stamp, ww_stamp, owner, slots,
                   excl, shared, lru, lru_lock, excl_before, after_dup, sig>>
    /\ UNCHANGED cfgvars

\* lines 166-173: the fence is attached to the entry's resource, which moves
\* to the tail of the LRU list
FenceMark(b) ==
    /\ pc[b] = "fence_sweep"
    /\ LET e == list[b][k[b]] IN
       /\ IF SharedFence(e)
          THEN AddSharedFence(e.bo, b)
          ELSE AddExclFence(e.bo, b)
       /\ lru' = MoveToLruTail(lru, e.bo)
    /\ pc' = [pc EXCEPT ![b] = "fence_rel"]
    /\ UNCHANGED <<list, dups, cur, k, ret, tstate, stamp, ww_stamp, owner, slots,
                   lru_lock, excl_before, after_dup, sig>>
    /\ UNCHANGED cfgvars

\* lines 174-175: the resource is unlocked; next iteration of the loop
FenceSweep(b) ==
    /\ pc[b] = "fence_rel"
    /\ Unlock(list[b][k[b]].bo)
    /\ k' = [k EXCEPT ![b] = @ + 1]
    /\ pc' = [pc EXCEPT ![b] =
                IF k[b] = Len(list[b]) THEN "fence_unlock" ELSE "fence_sweep"]
    /\ UNCHANGED <<list, dups, cur, ret, tstate, stamp, ww_stamp, excl, shared,
                   lru, lru_lock, excl_before, after_dup, sig>>
    /\ UNCHANGED cfgvars

\* lines 176-178
FenceEnd(b) ==
    /\ pc[b] = "fence_unlock"
    /\ lru_lock' = 0
    /\ WwAcquireFini(b)
    /\ pc' = [pc EXCEPT ![b] = "done"]
    /\ UNCHANGED <<list, dups, cur, k, ret, owner, slots, excl, shared, lru,
                   excl_before, after_dup, sig>>
    /\ UNCHANGED cfgvars

Step(b) ==
        \/ ReserveBegin(b)
        \/ LockAcquire(b)
        \/ LockDuplicate(b)
        \/ LockFailed(b)
        \/ LockInterrupted(b)
        \/ BackoffReverse(b)
        \/ SlowLock(b)
        \/ SlowLockInterrupted(b)
        \/ ReserveFail(b)
        \/ BackoffBegin(b)
        \/ BackoffSweep(b)
        \/ BackoffEnd(b)
        \/ FenceBegin(b)
        \/ FenceMark(b)
        \/ FenceSweep(b)
        \/ FenceEnd(b)

Next == \E b \in Batches : AddEntry(b) \/ Step(b)

Spec == Init /\ [][Next]_vars

\* the same callers with one long list: the last caller's
NextLong == \E b \in Batches : AddEntryLong(b) \/ Step(b)

SpecLong == Init /\ [][NextLong]_vars

\* the steps of batch b that the scheduler and the caller's contract
\* guarantee: every step of the three functions, and the call of backoff or
\* fence_buffer_objects after a successful reserve; not the arrival of a signal
Run(b) ==
    \/ LockAcquire(b)
    \/ LockDuplicate(b)
    \/ LockFailed(b)
    \/ BackoffReverse(b)
    \/ SlowLock(b)
    \/ ReserveFail(b)
    \/ BackoffBegin(b)
    \/ BackoffSweep(b)
    \/ BackoffEnd(b)
    \/ FenceBegin(b)
    \/ FenceMark(b)
    \/ FenceSweep(b)
    \/ FenceEnd(b)

SpecFair == Init /\ [][Next]_vars /\ \A b \in Batches : WF_vars(Run(b))

\* ---- the end-to-end scenario ----
\* batch A = [R1 (shared 0), R2 (shared 1)] calls first, batch B = [R2, R1]
\* second; further batches pass empty lists
ScenarioList(b) ==
    IF b = 1 THEN << [bo |-> 1, num_shared |-> 0, id |-> 1],
                     [bo |-> 2, num_shared |-> 1, id |-> 2] >>
    ELSE IF b = 2 THEN << [bo |-> 2, num_shared |-> 0, id |-> 1],
                          [bo |-> 1, num_shared |-> 0, id |-> 2] >>
    ELSE <<>>

InitScenario ==
    /\ list = [b \in Batches |-> ScenarioList(b)]
    /\ orig = [b \in Batches |-> <<>>]
    /\ dups = [b \in Batches |-> <<>>]
    /\ has_dups = [b \in Batches |-> FALSE]
    /\ ticketed = [b \in Batches |-> FALSE]
    /\ intr = [b \in Batches |-> FALSE]
    /\ pc = [b \in Batches |-> "idle"]
    /\ cur = [b \in Batches |-> 0]
    /\ k = [b \in Batches |-> 0]
    /\ ret = [b \in Batches |-> "0"]
    /\ tstate = [b \in Batches |-> "unset"]
    /\ stamp = [b \in Batches |-> 0]
    /\ ww_stamp = 0
    /\ owner = [r \in Resources |-> 0]
    /\ slots = [r \in Resources |-> 0]
    /\ excl = [r \in Resources |-> 0]
    /\ shared = [r \in Resources |-> {}]
    /\ lru = [i \in 1..NumRes |-> i]
    /\ lru_lock = 0
    /\ excl_before = [b \in Batches |-> [r \in Resources |-> 0]]
    /\ after_dup = [b \in Batches |-> 0]
    /\ sig = [b \in Batches |-> FALSE]

\* the scenario's calls: with a ticket, not interruptible, the slot
\* allocation succeeding
ScenarioCall(b) ==
    /\ ticketed'[b]
    /\ ~intr'[b]
    /\ ret'[b] # "ENOMEM"

ScenarioStep(b) ==
    \/ ReserveBegin(b) /\ ScenarioCall(b)
    \/ LockAcquire(b) /\ ScenarioCall(b)
    \/ LockFailed(b) /\ ScenarioCall(b)
    \/ BackoffReverse(b) /\ ScenarioCall(b)
    \/ SlowLock(b) /\ ScenarioCall(b)
    \/ BackoffBegin(b)
    \/ BackoffSweep(b)
    \/ BackoffEnd(b)
    \/ FenceBegin(b)
    \/ FenceMark(b)
    \/ FenceSweep(b)
    \/ FenceEnd(b)

NextScenario == \E b \in Batches : ScenarioStep(b)

SpecScenario ==
    InitScenario /\ [][NextScenario]_vars
                 /\ \A b \in Batches : WF_vars(ScenarioStep(b))

\* ---- properties ----

Bos(l) == {l[i].bo : i \in 1..Len(l)}

Distinct(l) == \A i, j \in 1..Len(l) : l[i].bo = l[j].bo => i = j

LocksOf(b) == {r \in Resources : owner[r] = b}

\* the resources the code of batch b takes to be reserved by b: the entries
\* before the loop's entry, the whole list after a successful reserve, the
\* entries a release sweep has not reached yet
Reserved(b) ==
    CASE pc[b] = "lock" -> {list[b][i].bo : i \in 1..(cur[b] - 1)}
      [] pc[b] = "backoff_rev" -> {list[b][i].bo : i \in 1..k[b]}
      [] pc[b] = "reserved" -> Bos(list[b])
      [] pc[b] \in {"bo_sweep", "fence_sweep", "fence_rel"} ->
            {list[b][i].bo : i \in k[b]..Len(list[b])}
      [] OTHER -> {}

\* C1: mutual exclusion: in every reachable state no resource is reserved by
\* two batches at once, and a resource a batch takes to be reserved is locked
\* by that batch.
C1_MutualExclusion ==
    /\ \A b1, b2 \in Batches : b1 # b2 => Reserved(b1) \cap Reserved(b2) = {}
    /\ \A b \in Batches : Reserved(b) \subseteq LocksOf(b)

\* two batches name the same resource: one has it reserved, the other is at
\* its lock attempt of it
C1_Witness ==
    \E b1, b2 \in Batches :
        /\ b1 # b2
        /\ pc[b2] \in {"lock", "slow"}
        /\ list[b2][cur[b2]].bo \in Reserved(b1)

\* C2: atomicity of reserve: when reserve has returned, it returned 0 and
\* every entry of the validate list is locked by the batch, or it returned an
\* error and no resource is locked by the batch.
C2_Atomicity ==
    \A b \in Batches :
        /\ pc[b] = "reserved" => Bos(list[b]) \subseteq LocksOf(b)
        /\ pc[b] = "failed" => LocksOf(b) = {}

\* C4: success postcondition: when reserve has returned 0, every entry of the
\* validate list is locked by the batch, and every entry with a shared-slot
\* count has its slots reserved in the current hold of the lock.
C4_SuccessPost ==
    \A b \in Batches :
        pc[b] = "reserved" =>
            \A i \in 1..Len(list[b]) :
                LET e == list[b][i] IN
                /\ owner[e.bo] = b
                /\ e.num_shared # 0 => slots[e.bo] >= e.num_shared

\* reserve succeeded after a rollback: the first entry of the call, which asks
\* for shared slots, was released and locked again behind the slow-path entry
C4_Witness ==
    \E b \in Batches :
        /\ pc[b] = "reserved"
        /\ Len(list[b]) = 2
        /\ list[b][2].id = 1
        /\ list[b][2].num_shared # 0

\* C5: duplicate handling: with a duplicates list, an entry whose resource the
\* ticket already holds never fails the call; it leaves the validate list for
\* the duplicates list while the earlier entry of that resource stays; the next
\* entry attempted is the one that followed it; the validate list names each
\* resource once when reserve succeeds, so that the release sweep leaves
\* nothing locked.
C5_Duplicates ==
    \A b \in Batches :
        /\ (has_dups[b] /\ pc[b] \in {"backoff_rev", "slow", "fail", "failed"})
              => ret[b] # "EALREADY"
        /\ \A i \in 1..Len(dups[b]) :
              /\ \A j \in 1..Len(list[b]) : list[b][j].id # dups[b][i].id
              /\ \E j \in 1..Len(list[b]) :
                    /\ list[b][j].bo = dups[b][i].bo
                    /\ list[b][j].id < dups[b][i].id
        /\ after_dup[b] # 0 =>
              /\ pc[b] = "lock"
              /\ list[b][cur[b]].id = after_dup[b]
        /\ pc[b] = "reserved" => Distinct(list[b])
        /\ pc[b] = "done" => LocksOf(b) = {}

\* a call whose second entry was a duplicate, followed by a third entry, has
\* been rolled back, has succeeded and has been released: the duplicate is on
\* the duplicates list and its resource is unlocked
C5_Witness ==
    \E b \in Batches :
        /\ pc[b] = "done"
        /\ Len(dups[b]) = 1
        /\ dups[b][1].id = 2
        /\ Len(list[b]) = 2
        /\ list[b][1].id = 3
        /\ owner[dups[b][1].bo] = 0

\* C6: ticket invalidation: no resource is locked by a batch whose ticket has
\* been invalidated.
C6_NoLockAfterFini ==
    \A b \in Batches : tstate[b] = "fini" => LocksOf(b) = {}

\* C7: cancellation: a call whose slow-path wait was ended by a signal returns
\* -ERESTARTSYS with the ticket invalidated and nothing locked; a call that is
\* not interruptible is never ended by a signal and returns neither -EINTR nor
\* -ERESTARTSYS.
C7_Cancellation ==
    \A b \in Batches :
        /\ (sig[b] /\ pc[b] = "failed") =>
              /\ ret[b] = "ERESTARTSYS"
              /\ tstate[b] = "fini"
              /\ LocksOf(b) = {}
        /\ ~intr[b] => (~sig[b] /\ ret[b] \notin {"EINTR", "ERESTARTSYS"})

\* the call of a batch that had locked an entry was cancelled in its wait
C7_Witness ==
    \E b \in Batches :
        /\ sig[b]
        /\ pc[b] = "failed"
        /\ cur[b] > 1

\* C8: LRU update: when a release sweep over a list of N resources is over and
\* the LRU lock is about to be dropped, the N resources are the last N of the
\* LRU list, in the order of the list.
C8_LruTail ==
    \A b \in Batches :
        pc[b] \in {"bo_unlock", "fence_unlock"} =>
            LET n == Len(list[b]) IN
            \A i \in 1..n : lru[Len(lru) - n + i] = list[b][i].bo

\* a sweep over two resources is over while another batch has run its own
\* release before
C8_Witness ==
    \E b, c \in Batches :
        /\ b # c
        /\ pc[b] \in {"bo_unlock", "fence_unlock"}
        /\ Len(list[b]) = 2
        /\ lru # <<list[b][2].bo, list[b][1].bo>>
        /\ pc[c] = "done"
        /\ Len(list[c]) > 0

\* C9: marker correctness: when the sweep of fence_buffer_objects with fence f
\* is over, an entry without shared slots has f as the exclusive fence of its
\* resource; an entry with shared slots has f among the shared fences and the
\* exclusive fence the resource had when the call began.
C9_Markers ==
    \A b \in Batches :
        pc[b] = "fence_unlock" =>
            \A i \in 1..Len(list[b]) :
                LET e == list[b][i] IN
                IF e.num_shared = 0
                THEN excl[e.bo] = b
                ELSE /\ b \in shared[e.bo]
                     /\ excl[e.bo] = excl_before[b][e.bo]

\* a fence sweep with an exclusive and a shared entry is over; the shared
\* entry's resource carries the exclusive fence of an earlier batch
C9_Witness ==
    \E b \in Batches :
        /\ pc[b] = "fence_unlock"
        /\ \E i, j \in 1..Len(list[b]) :
              /\ list[b][i].num_shared = 0
              /\ list[b][j].num_shared # 0
              /\ excl[list[b][j].bo] \notin {0, b}

InReserve(b) == pc[b] \in {"lock", "backoff_rev", "slow", "fail"}

\* C3: deadlock freedom: under fair scheduling every call of reserve returns.
C3_ReserveReturns ==
    \A b \in Batches : InReserve(b) ~> (pc[b] \in {"reserved", "failed"})

\* C10: age-based progress: an older ticket that contends for a resource a
\* younger ticket holds obtains the lock, unless its call fails.
C10_OlderWins ==
    \A b, c \in Batches : \A r \in Resources :
        (/\ ticketed[b] /\ ticketed[c]
         /\ tstate[b] = "init"
         /\ stamp[b] < stamp[c]
         /\ pc[b] \in {"lock", "slow"}
         /\ list[b][cur[b]].bo = r
         /\ owner[r] = c)
        ~> (owner[r] = b \/ pc[b] \in {"fail", "failed"})

C12_OnlyFenceMarks ==
    [][\A r \in Resources :
          (excl'[r] # excl[r] \/ shared'[r] # shared[r]) =>
              \E b \in Batches :
                  /\ pc[b] = "fence_sweep"
                  /\ list[b][k[b]].bo = r
                  /\ owner[r] = b
                  /\ pc'[b] = "fence_rel"]_vars

\* the sweep of backoff is over on a list with a resource that carries the
\* exclusive fence of another batch
C12_Witness ==
    \E b \in Batches :
        /\ pc[b] = "bo_unlock"
        /\ \E i \in 1..Len(list[b]) : excl[list[b][i].bo] \notin {0, b}

\* C13 as stated: both release sweeps run inside the LRU critical section:
\* every step that unlocks a resource in the full backoff or in the partial
\* reverse backoff is taken while the releasing batch holds the LRU lock.
C13_BothUnderLruLock ==
    [][\A r \in Resources :
          (owner[r] # 0 /\ owner'[r] = 0 /\ pc[owner[r]] \in {"bo_sweep", "backoff_rev"})
              => lru_lock = owner[r]]_vars

\* C13, amended: the full backoff holds the LRU lock over its whole sweep; the
\* partial reverse backoff unlocks its entries without holding the LRU lock
\* and leaves the LRU list as it is.
C13_FullUnderLruLock ==
    [][\A r \in Resources :
          (owner[r] # 0 /\ owner'[r] = 0) =>
              LET b == owner[r] IN
              \/ /\ pc[b] \in {"bo_sweep", "fence_sweep", "fence_rel"}
                 /\ lru_lock = b
                 /\ lru_lock' = b
              \/ /\ pc[b] = "backoff_rev"
                 /\ lru_lock # b
                 /\ lru' = lru]_vars

\* a batch is inside its reverse backoff while another batch holds the LRU
\* lock for its own release sweep
C13_Witness ==
    \E b, c \in Batches :
        /\ b # c
        /\ pc[b] = "backoff_rev"
        /\ lru_lock = c

\* b holds a complete reservation: reserve has returned 0 and the release has
\* not unlocked an entry yet
Complete(b) ==
    /\ ~ListEmpty(list[b])
    /\ \/ pc[b] = "reserved"
       \/ pc[b] \in {"bo_sweep", "fence_sweep", "fence_rel"} /\ k[b] = 1

\* the release sweep of c has unlocked r
Released(c, r) ==
    \/ pc[c] \in {"bo_unlock", "fence_unlock", "done"}
    \/ /\ pc[c] \in {"bo_sweep", "fence_sweep", "fence_rel"}
       /\ \E i \in 1..(k[c] - 1) : list[c][i].bo = r

\* C14: the end-to-end scenario: no call of reserve fails; the two batches
\* never hold a complete reservation at the same time; the batch that backed
\* off obtains the resource it waits for only once the release sweep of the
\* other batch has unlocked it; in the end both batches have reserved and
\* released, and every resource is unlocked.
C14_Scenario ==
    /\ [](\A b \in Batches : pc[b] \notin {"fail", "failed"})
    /\ [](\A b, c \in Batches : (Complete(b) /\ Complete(c)) => b = c)
    /\ [][\A b \in Batches :
            (pc[b] = "slow" /\ pc'[b] # "slow") =>
                \A c \in Batches \ {b} :
                    ~ListEmpty(list[c]) => Released(c, list[b][cur[b]].bo)]_vars
    /\ <>[](/\ \A b \in Batches : pc[b] = "done"
            /\ \A r \in Resources : owner[r] = 0)

\* the scenario has ended after batch B backed off, waited for R1 and moved
\* it to the front of its list
C14_Witness ==
    /\ \A b \in Batches : pc[b] = "done"
    /\ list[2][1].id = 2
    /\ \A r \in Resources : owner[r] = 0

\* C15: no partial set while waiting: a batch in the slow-path wait of
\* reserve holds no lock on any resource.
C15_NoLockWhileWaiting ==
    \A b \in Batches : pc[b] = "slow" => LocksOf(b) = {}

\* a batch waits in the slow path for its second entry while another batch
\* holds that resource: the first entry was locked and has been released
C15_Witness ==
    \E b \in Batches :
        /\ pc[b] = "slow"
        /\ cur[b] = 2
        /\ owner[list[b][2].bo] # 0
        /\ owner[list[b][1].bo] = 0

\* C16: exhaustion is terminal: once the shared-slot allocation of an entry
\* has failed, reserve only rolls back the entries before it and goes to its
\* error return: it does not wait in the slow path, does not attempt the entry
\* again and keeps the error; when it has returned, it returned -ENOMEM, the
\* ticket is invalidated and no entry before the failed one is locked.
C16_ExhaustionTerminal ==
    /\ [](\A b \in Batches :
            (pc[b] = "failed" /\ ret[b] = "ENOMEM") =>
                /\ ticketed[b] => tstate[b] = "fini"
                /\ \A i \in 1..(cur[b] - 1) : owner[list[b][i].bo] # b)
    /\ [][\A b \in Batches :
            (InReserve(b) /\ ret[b] = "ENOMEM" /\ pc[b] # "lock") =>
                /\ pc'[b] \in {"backoff_rev", "fail", "failed"}
                /\ ret'[b] = "ENOMEM"
                /\ cur'[b] = cur[b]
                /\ list'[b] = list[b]]_vars

\* the allocation for the second entry failed and reserve has returned
\* -ENOMEM after the rollback of the first entry
C16_Witness ==
    \E b \in Batches :
        /\ pc[b] = "failed"
        /\ ret[b] = "ENOMEM"
        /\ cur[b] = 2
        /\ list[b][2].num_shared # 0

\* b's fence is recorded on r
Marked(b, r) == excl[r] = b \/ b \in shared[r]

\* C17: fence ordering: in fence_buffer_objects a resource is unlocked only
\* once the fence is recorded on it and it is the tail of the LRU list; the
\* fence is attached while the batch holds the resource's lock; an entry the
\* sweep has not unlocked yet is locked by the batch, so that no other batch
\* locks it before the fence is recorded; the ticket is invalidated only when
\* the batch holds no lock any more.
C17_FenceOrdering ==
    /\ [](\A b \in Batches :
            pc[b] \in {"fence_sweep", "fence_rel"} =>
                /\ tstate[b] # "fini"
                /\ \A i \in k[b]..Len(list[b]) : owner[list[b][i].bo] = b)
    /\ [][\A b \in Batches :
            /\ (pc[b] = "fence_sweep" /\ pc'[b] # pc[b]) =>
                  LET r == list[b][k[b]].bo IN
                  /\ Marked(b, r)'
                  /\ owner'[r] = b
            /\ \A r \in Resources :
                  (pc[b] \in {"fence_sweep", "fence_rel"}
                      /\ owner[r] = b /\ owner'[r] # b) =>
                      /\ Marked(b, r)
                      /\ lru[Len(lru)] = r
                      /\ owner'[r] = 0
            /\ (pc[b] \in {"fence_sweep", "fence_rel", "fence_unlock"}
                    /\ tstate[b] # "fini" /\ tstate'[b] = "fini") =>
                  LocksOf(b) = {}]_vars

\* the fence is recorded on a resource that the batch still holds while
\* another batch is at its lock attempt of that resource
C17_Witness ==
    \E b, c \in Batches :
        /\ b # c
        /\ pc[b] = "fence_rel"
        /\ Marked(b, list[b][k[b]].bo)
        /\ owner[list[b][k[b]].bo] = b
        /\ pc[c] \in {"lock", "slow"}
        /\ list[c][cur[c]].bo = list[b][k[b]].bo

\* C18 as stated: at every lock attempt of reserve the entries before the
\* current one have their resources locked by the batch, and no entry at or
\* after the current one has.
C18_ScanExact ==
    \A b \in Batches :
        pc[b] = "lock" =>
            \A i \in 1..Len(list[b]) :
                (owner[list[b][i].bo] = b) <=> (i < cur[b])

\* C18, amended: at every lock attempt of reserve the entries before the
\* current one have their resources locked by the batch; an entry at or after
\* the current one has its resource locked by the batch only if an entry before
\* the current one names the same resource. The step that obtains the lock in
\* the slow path moves the entry to the head of the list, keeps the order of
\* the others, leaves that resource the only one locked by the batch and
\* continues with the second entry of the list.
C18_ScanInvariant ==
    /\ [](\A b \in Batches :
            pc[b] = "lock" =>
                \A i \in 1..Len(list[b]) :
                    /\ i < cur[b] => owner[list[b][i].bo] = b
                    /\ (i >= cur[b] /\ owner[list[b][i].bo] = b) =>
                          \E j \in 1..(cur[b] - 1) : list[b][j].bo = list[b][i].bo)
    /\ [][\A b \in Batches :
            (pc[b] = "slow" /\ pc'[b] \in {"lock", "reserved"}) =>
                /\ list'[b] = <<list[b][cur[b]]>> \o ListDel(list[b], cur[b])
                /\ {r \in Resources : owner'[r] = b} = {list[b][cur[b]].bo}
                /\ cur'[b] = 2
                /\ pc'[b] = "reserved" <=> Len(list[b]) = 1]_vars

\* the second entry of the call was a duplicate and left the list; after the
\* slow-path acquisition of the third entry the batch is at the lock attempt
\* of the entry that was first
C18_Witness ==
    \E b \in Batches :
        /\ pc[b] = "lock"
        /\ cur[b] = 2
        /\ Len(dups[b]) = 1
        /\ Len(list[b]) = 2
        /\ list[b][1].id = 3
        /\ list[b][2].id = 1
        /\ LocksOf(b) = {list[b][1].bo}

\* the entries of a list, as a set
EntrySet(l) == {l[i] : i \in 1..Len(l)}

\* C19: entry conservation: from the call of reserve on, the validate list and
\* the duplicates list together hold each entry passed in exactly once; a
\* non-empty validate list never becomes empty; the step that moves an entry
\* to the duplicates list moves the current entry, while an entry before it
\* names the same resource and that resource is locked by the batch.
C19_Conservation ==
    /\ [](\A b \in Batches :
            pc[b] # "idle" =>
                /\ EntrySet(list[b]) \cup EntrySet(dups[b]) = EntrySet(orig[b])
                /\ Len(list[b]) + Len(dups[b]) = Len(orig[b])
                /\ ~ListEmpty(orig[b]) => ~ListEmpty(list[b]))
    /\ [][\A b \in Batches :
            dups'[b] # dups[b] =>
                /\ pc[b] = "lock"
                /\ dups'[b] = <<list[b][cur[b]]>> \o dups[b]
                /\ owner[list[b][cur[b]].bo] = b
                /\ \E j \in 1..(cur[b] - 1) : list[b][j].bo = list[b][cur[b]].bo]_vars

\* reserve has succeeded on a list of three entries after a duplicate removal
\* and a move to the front
C19_Witness ==
    \E b \in Batches :
        /\ pc[b] = "reserved"
        /\ Len(orig[b]) = 3
        /\ Len(dups[b]) = 1
        /\ list[b][1].id = 3

\* batch b called reserve with a ticket, without a duplicates list, on a list
\* that names a resource twice
DupNoList(b) ==
    /\ pc[b] # "idle"
    /\ ticketed[b]
    /\ ~has_dups[b]
    /\ ~Distinct(orig[b])

\* C20 as stated: a call of reserve with a ticket and without a duplicates
\* list, on a list that names a resource twice, has returned only as a failure
\* with -EALREADY, the ticket invalidated, nothing locked by the batch and the
\* list's membership unchanged.
C20_AlwaysAlready ==
    \A b \in Batches :
        (DupNoList(b) /\ ~InReserve(b)) =>
            /\ pc[b] = "failed"
            /\ ret[b] = "EALREADY"
            /\ tstate[b] = "fini"
            /\ LocksOf(b) = {}
            /\ EntrySet(list[b]) = EntrySet(orig[b])

\* C20, amended: such a call never succeeds. The lock attempt of an entry
\* whose resource an earlier entry has locked ends with -EALREADY and starts
\* the rollback; from then on the call only rolls back, each rollback step
\* unlocking a resource the batch holds, and returns; when it has returned
\* -EALREADY the ticket is invalidated, nothing is locked by the batch and the
\* list has the entries that were passed in. A call that fails before it
\* reaches the second occurrence returns that failure's error.
C20_DuplicateFails ==
    /\ [](\A b \in Batches :
            DupNoList(b) =>
                /\ pc[b] \in {"lock", "backoff_rev", "slow", "fail", "failed"}
                /\ (pc[b] = "failed" /\ ret[b] = "EALREADY") =>
                      /\ tstate[b] = "fini"
                      /\ LocksOf(b) = {}
                      /\ EntrySet(list[b]) = EntrySet(orig[b])
                      /\ Len(list[b]) = Len(orig[b]))
    /\ [][\A b \in Batches :
            DupNoList(b) =>
                /\ (/\ pc[b] = "lock"
                    /\ \E j \in 1..(cur[b] - 1) : list[b][j].bo = list[b][cur[b]].bo
                    /\ pc'[b] # "lock") =>
                      /\ pc'[b] = "backoff_rev"
                      /\ ret'[b] = "EALREADY"
                /\ (pc[b] \in {"backoff_rev", "fail"} /\ ret[b] = "EALREADY") =>
                      /\ pc'[b] \in {"backoff_rev", "fail", "failed"}
                      /\ ret'[b] = "EALREADY"
                      /\ k'[b] # k[b] => owner[list[b][k[b]].bo] = b]_vars

\* a call on a list of three entries has returned -EALREADY at the second
\* occurrence of a resource, after the slow-path acquisition of another entry
C20_Witness ==
    \E b \in Batches :
        /\ DupNoList(b)
        /\ pc[b] = "failed"
        /\ ret[b] = "EALREADY"
        /\ Len(list[b]) = 3
        /\ list[b][1].id # 1

TypeOK ==
    /\ owner \in [Resources -> 0..NumBatches]
    /\ lru_lock \in 0..NumBatches
    /\ \A b \in Batches : pc[b] # "idle" => Len(list[b]) + Len(dups[b]) = Len(orig[b])
====
